---------------------------- MODULE Spec2Model ----------------------------
(***************************************************************************)
(* Model of src/main.py: the 24-hour / 12-hour clock-time parser, the      *)
(* converter between the two conventions and the time-of-day arithmetic.   *)
(*                                                                         *)
(* A text is a sequence of one-character strings, so that parsing and      *)
(* formatting are computed character by character as the code does.  A     *)
(* Python value is a record [type, v]: type "str" (v the text), "Time"     *)
(* (v = <<hours, minutes, seconds>>), "NoneType" (v = <<>>); an exception  *)
(* in flight is a record whose type is the exception's class name.         *)
(***************************************************************************)
EXTENDS Integers, Sequences, FiniteSets, TLC

VARIABLES
    display,   \* whether tkinter can open a dialog (a display is there)
    op,        \* name of the function called last
    args,      \* the arguments of that call
    out,       \* what the call gave its caller: a value, or an exception
    origin,    \* the text a chain of calls started from
    net,       \* the sum of the offsets applied to origin, modulo one day
    steps      \* the number of calls in the chain so far

vars == <<display, op, args, out, origin, net, steps>>

-----------------------------------------------------------------------------
(* Constants of main.py *)

HOURS_IN_DAY == 24
HOURS_IN_HALF_DAY == 12
MINUTES_IN_HOUR == 60
SECONDS_IN_MINUTE == 60

(* Constants of the datetime module main.py imports *)

\* date.max.toordinal(): 9999-12-31
MAXORDINAL == 3652059
\* timedelta.max.days
MAXDELTADAYS == 999999999
\* datetime(2000, 1, 1).toordinal()
ANCHORORDINAL == 730120
\* the 3600 of divmod(diff.seconds, 3600)
SECONDS_IN_HOUR == 3600
\* timedelta keeps 0 <= seconds < 24 * 3600
SECONDS_IN_DAY == HOURS_IN_DAY * SECONDS_IN_HOUR

-----------------------------------------------------------------------------
(* Python values and exceptions *)

Str(s) == [type |-> "str", v |-> s]
None == [type |-> "NoneType", v |-> <<>>]
Time(h, m, s) == [type |-> "Time", v |-> <<h, m, s>>]
Exc(name) == [type |-> name, v |-> <<>>]

ValueTypes == {"str", "Time", "NoneType", "datetime", "timedelta"}
IsExc(r) == r.type \notin ValueTypes

-----------------------------------------------------------------------------
(* Text primitives: str.split, int(), the format specs d and 02d *)

DigitChars == <<"0", "1", "2", "3", "4", "5", "6", "7", "8", "9">>
Digits == {DigitChars[i] : i \in 1..10}
Whitespace == {" ", "\n"}

DigitVal(c) == (CHOOSE i \in 1..10 : DigitChars[i] = c) - 1

\* str.split(sep): the pieces between the occurrences of sep, empty ones kept
RECURSIVE split(_, _)
split(s, sep) ==
    IF \A i \in 1..Len(s) : s[i] # sep
    THEN <<s>>
    ELSE LET k == CHOOSE i \in 1..Len(s) :
                      s[i] = sep /\ \A j \in 1..(i - 1) : s[j] # sep
         IN  <<SubSeq(s, 1, k - 1)>> \o split(SubSeq(s, k + 1, Len(s)), sep)

\* str.strip() as int() applies it to its argument
RECURSIVE lstrip(_)
lstrip(s) == IF s # <<>> /\ Head(s) \in Whitespace THEN lstrip(Tail(s)) ELSE s

RECURSIVE rstrip(_)
rstrip(s) ==
    IF s # <<>> /\ s[Len(s)] \in Whitespace
    THEN rstrip(SubSeq(s, 1, Len(s) - 1))
    ELSE s

RECURSIVE DigitsValue(_)
DigitsValue(s) ==
    IF s = <<>> THEN 0
    ELSE 10 * DigitsValue(SubSeq(s, 1, Len(s) - 1)) + DigitVal(s[Len(s)])

AllDigits(s) == s # <<>> /\ \A i \in 1..Len(s) : s[i] \in Digits

\* int(text): surrounding whitespace dropped, an optional sign, then digits;
\* anything else is a ValueError
int(s) ==
    LET t == rstrip(lstrip(s))
        signed == t # <<>> /\ Head(t) \in {"+", "-"}
        body == IF signed THEN Tail(t) ELSE t
    IN  IF ~AllDigits(body) THEN [ok |-> FALSE, val |-> 0]
        ELSE [ok |-> TRUE,
              val |-> IF signed /\ Head(t) = "-"
                      THEN 0 - DigitsValue(body) ELSE DigitsValue(body)]

\* format(n, "d")
RECURSIVE NatText(_)
NatText(n) ==
    IF n < 10 THEN <<DigitChars[n + 1]>>
    ELSE NatText(n \div 10) \o <<DigitChars[(n % 10) + 1]>>

fmt_d(n) == IF n < 0 THEN <<"-">> \o NatText(0 - n) ELSE NatText(n)

\* format(n, "02d"): zero-padded to a width of two, the sign counted
fmt_02d(n) == IF 0 <= n /\ n < 10 THEN <<"0">> \o NatText(n) ELSE fmt_d(n)

\* f"{h:02d}:{m:02d}:{s:02d}"
fmt_hms(h, m, s) == fmt_02d(h) \o <<":">> \o fmt_02d(m) \o <<":">> \o fmt_02d(s)

-----------------------------------------------------------------------------
(* validate_time: the decorator around every core function *)

\* messagebox.showerror opens a dialog and returns once it is dismissed; with
\* no display tkinter raises TclError from inside the except clause
showerror == IF display THEN None ELSE Exc("TclError")

\* r is what the decorated body did: a returned value or a raised exception.
\* Both except clauses end in showerror and fall off the end of wrapper.
validate_time(r) == IF IsExc(r) THEN showerror ELSE r

-----------------------------------------------------------------------------
(* parse_time *)

parse_time_body(time_str) ==
    IF time_str.type # "str" THEN Exc("AttributeError")
    ELSE
    LET time_parts == split(time_str.v, ":")
        n == Len(time_parts)
        hours == int(time_parts[1])
        minutes == int(time_parts[2])
        seconds == IF n = 3 THEN int(time_parts[3]) ELSE [ok |-> TRUE, val |-> 0]
    IN  IF n \notin {2, 3} THEN Exc("TimeFormatError")
        ELSE IF ~(hours.ok /\ minutes.ok /\ seconds.ok) THEN Exc("ValueError")
        ELSE IF ~(/\ 0 <= hours.val /\ hours.val < HOURS_IN_DAY
                  /\ 0 <= minutes.val /\ minutes.val < MINUTES_IN_HOUR
                  /\ 0 <= seconds.val /\ seconds.val < SECONDS_IN_MINUTE)
        THEN Exc("TimeFormatError")
        ELSE Time(hours.val, minutes.val, seconds.val)

parse_time(time_str) == validate_time(parse_time_body(time_str))

\* time = parse_time(...) gave the caller's body a Time to go on with
HasTime(time) == time.type = "Time"

\* What the caller's body does otherwise: an exception raised by parse_time
\* passes through it, and time.hours on None is an AttributeError
NoTime(time) == IF IsExc(time) THEN time ELSE Exc("AttributeError")

hours_of(time) == time.v[1]
minutes_of(time) == time.v[2]
seconds_of(time) == time.v[3]

-----------------------------------------------------------------------------
(* military_to_standard_time *)

Period(hours) == IF hours < HOURS_IN_HALF_DAY THEN <<"A", "M">> ELSE <<"P", "M">>

\* StandardHours without its midnight case
StandardHours_NoMidnight(hours) ==
    IF hours > HOURS_IN_HALF_DAY THEN hours - HOURS_IN_HALF_DAY ELSE hours

StandardHours(hours) ==
    IF hours = 0 THEN HOURS_IN_HALF_DAY
    ELSE IF hours > HOURS_IN_HALF_DAY THEN hours - HOURS_IN_HALF_DAY
    ELSE hours

military_to_standard_time_body(military_time, use_24h) ==
    LET time == parse_time(military_time)
    IN  IF ~HasTime(time) THEN NoTime(time)
        ELSE IF use_24h
        THEN Str(fmt_hms(hours_of(time), minutes_of(time), seconds_of(time)))
        ELSE Str(fmt_d(StandardHours(hours_of(time))) \o <<":">>
                 \o fmt_02d(minutes_of(time)) \o <<":">>
                 \o fmt_02d(seconds_of(time)) \o <<" ">>
                 \o Period(hours_of(time)))

military_to_standard_time(military_time, use_24h) ==
    validate_time(military_to_standard_time_body(military_time, use_24h))

-----------------------------------------------------------------------------
(* standard_to_military_time *)

\* str.upper() on the letters the meridiem can hold
Upper(c) ==
    CASE c = "a" -> "A" [] c = "p" -> "P" [] c = "m" -> "M" [] OTHER -> c

upper(s) == [i \in 1..Len(s) |-> Upper(s[i])]

\* The languages of the pieces of standard_time_pattern
\*   ^(1[0-2]|0?[1-9]):([0-5][0-9]):?([0-5]?[0-9])? ?(AM|PM)$   re.IGNORECASE
InHourGroup(g) ==
    \/ Len(g) = 2 /\ g[1] = "1" /\ g[2] \in {"0", "1", "2"}
    \/ Len(g) = 2 /\ g[1] = "0" /\ g[2] \in Digits \ {"0"}
    \/ Len(g) = 1 /\ g[1] \in Digits \ {"0"}

InMinuteGroup(g) ==
    Len(g) = 2 /\ g[1] \in {"0", "1", "2", "3", "4", "5"} /\ g[2] \in Digits

InSecondGroup(g) ==
    \/ Len(g) = 2 /\ g[1] \in {"0", "1", "2", "3", "4", "5"} /\ g[2] \in Digits
    \/ Len(g) = 1 /\ g[1] \in Digits

InPeriodGroup(g) == upper(g) \in {<<"A", "M">>, <<"P", "M">>}

\* Every way standard_time_pattern matches the whole of s, as the lengths of
\* its pieces: hour group, optional colon, optional seconds group, optional
\* space, and the newline that $ lets follow the match.  Group 3 that took
\* part in no match is None: sec = <<>>.
PatternMatches(s) ==
    { [hours |-> SubSeq(s, 1, c[1]),
       minutes |-> SubSeq(s, c[1] + 2, c[1] + 3),
       seconds |-> SubSeq(s, c[1] + 4 + c[2], c[1] + 3 + c[2] + c[3]),
       period |-> SubSeq(s, c[1] + 4 + c[2] + c[3] + c[4],
                            c[1] + 5 + c[2] + c[3] + c[4])] :
      c \in { d \in {1, 2} \X {0, 1} \X {0, 1, 2} \X {0, 1} \X {0, 1} :
                LET colon == d[1] + 1
                    afterMin == d[1] + 4
                    secAt == afterMin + d[2]
                    spAt == secAt + d[3]
                    perAt == spAt + d[4]
                IN  /\ Len(s) = perAt + 1 + d[5]
                    /\ InHourGroup(SubSeq(s, 1, d[1]))
                    /\ s[colon] = ":"
                    /\ InMinuteGroup(SubSeq(s, colon + 1, colon + 2))
                    /\ d[2] = 1 => s[afterMin] = ":"
                    /\ d[3] > 0 => InSecondGroup(SubSeq(s, secAt, secAt + d[3] - 1))
                    /\ d[4] = 1 => s[spAt] = " "
                    /\ InPeriodGroup(SubSeq(s, perAt, perAt + 1))
                    /\ d[5] = 1 => s[Len(s)] = "\n" } }

\* MilitaryHours without its 12 AM case
MilitaryHours_NoMidnight(hours, period) ==
    IF upper(period) = <<"P", "M">> /\ hours # HOURS_IN_HALF_DAY
    THEN hours + HOURS_IN_HALF_DAY
    ELSE hours

\* MilitaryHours with 12 added to every PM hour, noon included
MilitaryHours_NoNoon(hours, period) ==
    IF upper(period) = <<"P", "M">> THEN hours + HOURS_IN_HALF_DAY
    ELSE IF upper(period) = <<"A", "M">> /\ hours = HOURS_IN_HALF_DAY THEN 0
    ELSE hours

\* The hour of the 24-hour clock for an hour of the 12-hour clock
MilitaryHours(hours, period) ==
    IF upper(period) = <<"P", "M">> /\ hours # HOURS_IN_HALF_DAY
    THEN hours + HOURS_IN_HALF_DAY
    ELSE IF upper(period) = <<"A", "M">> /\ hours = HOURS_IN_HALF_DAY THEN 0
    ELSE hours

standard_to_military_time_body(standard_time) ==
    IF standard_time.type # "str" THEN Exc("TypeError")
    ELSE LET found == PatternMatches(standard_time.v)
         IN  IF found = {} THEN Exc("TimeFormatError")
             ELSE LET match == CHOOSE g \in found : TRUE
                      hours == int(match.hours).val
                      minutes == int(match.minutes).val
                      seconds == IF match.seconds # <<>>
                                 THEN int(match.seconds).val ELSE 0
                  IN  Str(fmt_hms(MilitaryHours(hours, match.period),
                                  minutes, seconds))

standard_to_military_time(standard_time) ==
    validate_time(standard_to_military_time_body(standard_time))

-----------------------------------------------------------------------------
(* datetime and timedelta, as far as main.py uses them *)

\* timedelta(days, hours=, minutes=, seconds=): normalised to days and
\* 0 <= seconds < 86400.  Each argument is split into whole days and a rest
\* before the rests are summed, which gives the exact quotient and remainder
\* of days * 86400 + hours * 3600 + minutes * 60 + seconds by 86400.
timedelta(days, hours, minutes, seconds) ==
    LET rest == (hours % HOURS_IN_DAY) * SECONDS_IN_HOUR
                + (minutes % (HOURS_IN_DAY * MINUTES_IN_HOUR)) * SECONDS_IN_MINUTE
                + (seconds % SECONDS_IN_DAY)
        d == days + (hours \div HOURS_IN_DAY)
                  + (minutes \div (HOURS_IN_DAY * MINUTES_IN_HOUR))
                  + (seconds \div SECONDS_IN_DAY)
                  + (rest \div SECONDS_IN_DAY)
    IN  IF d > MAXDELTADAYS \/ d < 0 - MAXDELTADAYS THEN Exc("OverflowError")
        ELSE [type |-> "timedelta", v |-> <<d, rest % SECONDS_IN_DAY>>]

\* -timedelta
timedelta_neg(td) == timedelta(0 - td.v[1], 0, 0, 0 - td.v[2])

\* timedelta_abs with the abs() left out of time_difference
timedelta_abs_missing(td) == td

\* abs(timedelta)
timedelta_abs(td) == IF td.v[1] < 0 THEN timedelta_neg(td) ELSE td

\* datetime(2000, 1, 1, time.hours, time.minutes, time.seconds)
datetime(time) ==
    [type |-> "datetime",
     v |-> <<ANCHORORDINAL, hours_of(time), minutes_of(time), seconds_of(time)>>]

\* datetime + timedelta: OverflowError outside 0001-01-01 .. 9999-12-31
datetime_add(dt, td) ==
    IF IsExc(td) THEN td
    ELSE LET delta == timedelta(dt.v[1] + td.v[1], dt.v[2], dt.v[3],
                                dt.v[4] + td.v[2])
         IN  IF IsExc(delta) THEN delta
             ELSE IF 0 < delta.v[1] /\ delta.v[1] <= MAXORDINAL
             THEN [type |-> "datetime",
                   v |-> <<delta.v[1],
                           delta.v[2] \div SECONDS_IN_HOUR,
                           (delta.v[2] % SECONDS_IN_HOUR) \div SECONDS_IN_MINUTE,
                           delta.v[2] % SECONDS_IN_MINUTE>>]
             ELSE Exc("OverflowError")

\* datetime - timedelta
datetime_sub(dt, td) ==
    IF IsExc(td) THEN td ELSE datetime_add(dt, timedelta_neg(td))

\* datetime - datetime
datetime_diff(a, b) ==
    timedelta(a.v[1] - b.v[1], a.v[2] - b.v[2], a.v[3] - b.v[3], a.v[4] - b.v[4])

\* datetime < datetime
datetime_lt(a, b) ==
    \E i \in 1..4 : a.v[i] < b.v[i] /\ \A j \in 1..(i - 1) : a.v[j] = b.v[j]

\* f"{dt.hour:02d}:{dt.minute:02d}:{dt.second:02d}"
fmt_datetime(dt) ==
    IF IsExc(dt) THEN dt ELSE Str(fmt_hms(dt.v[2], dt.v[3], dt.v[4]))

\* hours, remainder = divmod(td.seconds, 3600)
\* minutes, seconds = divmod(remainder, 60)
\* f"{hours:02d}:{minutes:02d}:{seconds:02d}"
fmt_timedelta(td) ==
    IF IsExc(td) THEN td
    ELSE Str(fmt_hms(td.v[2] \div SECONDS_IN_HOUR,
                     (td.v[2] % SECONDS_IN_HOUR) \div SECONDS_IN_MINUTE,
                     (td.v[2] % SECONDS_IN_HOUR) % SECONDS_IN_MINUTE))

-----------------------------------------------------------------------------
(* add_time, subtract_time *)

add_time_body(time_str, hours, minutes, seconds) ==
    LET time == parse_time(time_str)
    IN  IF ~HasTime(time) THEN NoTime(time)
        ELSE fmt_datetime(datetime_add(datetime(time),
                                       timedelta(0, hours, minutes, seconds)))

add_time(time_str, hours, minutes, seconds) ==
    validate_time(add_time_body(time_str, hours, minutes, seconds))

subtract_time_body(time_str, hours, minutes, seconds) ==
    LET time == parse_time(time_str)
    IN  IF ~HasTime(time) THEN NoTime(time)
        ELSE fmt_datetime(datetime_sub(datetime(time),
                                       timedelta(0, hours, minutes, seconds)))

subtract_time(time_str, hours, minutes, seconds) ==
    validate_time(subtract_time_body(time_str, hours, minutes, seconds))

-----------------------------------------------------------------------------
(* time_difference, calculate_duration *)

\* Both arguments are parsed before either is used: the first exception
\* raised passes through, and a None among them is an AttributeError
NoTimes(t1, t2) ==
    IF IsExc(t1) THEN t1 ELSE IF IsExc(t2) THEN t2 ELSE Exc("AttributeError")

time_difference_body(time1, time2) ==
    LET t1 == parse_time(time1)
        t2 == parse_time(time2)
    IN  IF ~(HasTime(t1) /\ HasTime(t2)) THEN NoTimes(t1, t2)
        ELSE fmt_timedelta(timedelta_abs(datetime_diff(datetime(t2),
                                                       datetime(t1))))

time_difference(time1, time2) ==
    validate_time(time_difference_body(time1, time2))

\* calculate_duration_body taking the unsigned difference: no rollover
calculate_duration_body_unsigned(start_time, end_time) ==
    time_difference_body(start_time, end_time)

\* calculate_duration_body rolling end over when end <= start and counting
\* the whole days of the duration into its hours
calculate_duration_body_full_day(start_time, end_time) ==
    LET start == parse_time(start_time)
        end == parse_time(end_time)
        rolled == IF ~datetime_lt(datetime(start), datetime(end))
                  THEN datetime_add(datetime(end), timedelta(1, 0, 0, 0))
                  ELSE datetime(end)
        td == datetime_diff(rolled, datetime(start))
    IN  IF ~(HasTime(start) /\ HasTime(end)) THEN NoTimes(start, end)
        ELSE Str(fmt_hms(td.v[1] * HOURS_IN_DAY + td.v[2] \div SECONDS_IN_HOUR,
                         (td.v[2] % SECONDS_IN_HOUR) \div SECONDS_IN_MINUTE,
                         (td.v[2] % SECONDS_IN_HOUR) % SECONDS_IN_MINUTE))

calculate_duration_body(start_time, end_time) ==
    LET start == parse_time(start_time)
        end == parse_time(end_time)
        start_dt == datetime(start)
        end_dt == IF datetime_lt(datetime(end), start_dt)
                  THEN datetime_add(datetime(end), timedelta(1, 0, 0, 0))
                  ELSE datetime(end)
    IN  IF ~(HasTime(start) /\ HasTime(end)) THEN NoTimes(start, end)
        ELSE fmt_timedelta(datetime_diff(end_dt, start_dt))

calculate_duration(start_time, end_time) ==
    validate_time(calculate_duration_body(start_time, end_time))

-----------------------------------------------------------------------------
(* The inputs the operations are run on *)

\* the longest chain of add_time / subtract_time calls feeding one another
MaxSteps == 3

SampleMinutes == {0, 5, 30, 59}
SampleSeconds == {0, 7, 59}

\* HH:MM:SS and HH:MM texts of valid times, every hour of the day
MilitaryTexts ==
    { fmt_hms(h, m, s) :
        h \in 0..(HOURS_IN_DAY - 1), m \in SampleMinutes, s \in SampleSeconds }
    \cup { fmt_02d(h) \o <<":">> \o fmt_02d(m) :
        h \in 0..(HOURS_IN_DAY - 1), m \in SampleMinutes }

\* 24-hour texts parse_time must refuse: wrong field count, a field that is
\* no number, a field out of range, a negative field
MalformedTexts ==
    { <<"2", "4", ":", "0", "0">>,
      <<"1", "2", ":", "6", "0">>,
      <<"a", "b", "c">>,
      <<"1", "2">>,
      <<"1", ":", "2", ":", "3", ":", "4">>,
      <<"1", "2", ":", "0", "0", ":", "6", "0">>,
      <<"-", "1", ":", "0", "0">>,
      <<"1", "2", ":", "-", "5">>,
      <<>>,
      <<"1", "2", ":", "3", "a">>,
      <<"1", "2", ":", ":", "3", "0">>,
      <<"2", "5", ":", "6", "1", ":", "6", "1">>,
      <<"1", "2", ":", "0", "0", ":", "-", "1">> }

\* valid 24-hour texts int() accepts although they are not HH:MM[:SS]
LooseTexts ==
    { <<" ", "7", ":", " ", "5">>,
      <<"+", "1", ":", "0", "2">>,
      <<"7", ":", "5", ":", "3">>,
      <<"1", "2", ":", "0", "0", ":", "0", "0", "\n">> }

Meridiems == {<<"A", "M">>, <<"P", "M">>, <<"a", "m">>, <<"P", "m">>}

\* texts of the 12-hour grammar: every hour with and without its leading
\* zero, with and without seconds, with and without the space
StandardTexts ==
    { hh \o <<":">> \o fmt_02d(m) \o ss \o sp \o mer :
        hh \in { fmt_d(h) : h \in 1..HOURS_IN_HALF_DAY }
               \cup { fmt_02d(h) : h \in 1..HOURS_IN_HALF_DAY },
        m \in {0, 59},
        ss \in {<<>>} \cup { <<":">> \o fmt_02d(x) : x \in SampleSeconds },
        sp \in {<<>>, <<" ">>},
        mer \in Meridiems }

\* texts around the edges of the 12-hour grammar
OtherStandardTexts ==
    { <<"1", "3", ":", "0", "0", ":", "0", "0", " ", "A", "M">>,
      <<"0", ":", "3", "0", " ", "A", "M">>,
      <<"0", "0", ":", "3", "0", " ", "P", "M">>,
      <<"1", ":", "3", "0", ":", "5", " ", "P", "M">>,
      <<"1", ":", "3", "0", "5", " ", "P", "M">>,
      <<"1", ":", "3", "0", ":", " ", "P", "M">>,
      <<"1", ":", "3", "0", " ", "P", "M", "\n">>,
      <<"1", ":", "3", " ", "P", "M">>,
      <<"1", ":", "3", "0", ":", "0", "5", " ", " ", "P", "M">>,
      <<" ", "1", ":", "3", "0", " ", "P", "M">>,
      <<"1", ":", "3", "0", ":", "0", "5">>,
      <<"1", ":", "3", "0", ":", "0", "5", " ", "X", "M">>,
      <<"1", ":", "6", "0", " ", "P", "M">>,
      <<"1", ":", "3", "0", ":", "6", "0", " ", "P", "M">>,
      <<"1", ":", "3", "0", " ", "P", "M", "x">>,
      <<"1", ":", "3", "0", "0", "5", "P", "M">>,
      <<"1", "2", ":", "0", "0", ":", "0", "0", " ", "A", "M">>,
      <<"1", "2", ":", "0", "0", ":", "0", "0", " ", "P", "M">>,
      <<"1", ";", "3", "0", " ", "P", "M">>,
      <<"1", "3", "0", " ", "P", "M">> }

\* the times the arithmetic starts from, the midnight neighbours among them
ArithTexts ==
    { fmt_hms(h, m, s) : h \in {0, 11, 23}, m \in {10, 50}, s \in {0, 59} }
    \cup { <<"2", "3", ":", "5", "0">> }

\* signed offsets <<hours, minutes, seconds>>: within the day, across
\* midnight in both directions, several days, and beyond the years datetime
\* can hold
Offsets ==
    { <<0, 20, 0>>, <<0, -20, 0>>, <<-25, 0, 1>>, <<1, 61, -3661>>,
      <<0, 0, 86400>>, <<100000000, 0, 0>>, <<0, -2000000000, 0>> }

\* the offset in seconds, modulo one day
OffsetSeconds(d) ==
    ((d[1] % HOURS_IN_DAY) * SECONDS_IN_HOUR
     + (d[2] % (HOURS_IN_DAY * MINUTES_IN_HOUR)) * SECONDS_IN_MINUTE
     + (d[3] % SECONDS_IN_DAY)) % SECONDS_IN_DAY

\* the times differences and durations are taken between
PairTexts ==
    { fmt_hms(h, m, s) : h \in {0, 2, 12, 22, 23}, m \in {0, 59}, s \in {0, 59} }
    \cup { <<"2", "2", ":", "0", "0">>, <<"0", "2", ":", "0", "0">> }

-----------------------------------------------------------------------------
(* The calls *)

NoArgs ==
    [time |-> None, time2 |-> None, hours |-> 0, minutes |-> 0, seconds |-> 0,
     use_24h |-> FALSE]

Init ==
    /\ display \in BOOLEAN
    /\ op = "none"
    /\ args = NoArgs
    /\ out = None
    /\ origin = None
    /\ net = 0
    /\ steps = 0

\* The functions keep no state between calls, so a call that starts from a
\* text of its own is made from the initial state.
Idle == op = "none"

Fresh(name, a, result) ==
    /\ op' = name
    /\ args' = a
    /\ out' = result
    /\ origin' = a.time
    /\ net' = 0
    /\ steps' = 0
    /\ UNCHANGED display

ParseTime ==
    /\ Idle
    /\ \E t \in MilitaryTexts \cup MalformedTexts \cup LooseTexts :
           Fresh("parse_time", [NoArgs EXCEPT !.time = Str(t)], parse_time(Str(t)))

MilitaryToStandard ==
    /\ Idle
    /\ \E t \in MilitaryTexts \cup MalformedTexts \cup LooseTexts, u \in BOOLEAN :
           Fresh("military_to_standard_time",
                 [NoArgs EXCEPT !.time = Str(t), !.use_24h = u],
                 military_to_standard_time(Str(t), u))

StandardToMilitary ==
    /\ Idle
    /\ \E t \in StandardTexts \cup OtherStandardTexts :
           Fresh("standard_to_military_time", [NoArgs EXCEPT !.time = Str(t)],
                 standard_to_military_time(Str(t)))

\* standard_to_military_time(military_to_standard_time(t)): the call is made
\* only if the first one came back
ConvertBack ==
    /\ op = "military_to_standard_time"
    /\ ~args.use_24h
    /\ ~IsExc(out)
    /\ op' = "standard_to_military_time"
    /\ args' = [NoArgs EXCEPT !.time = out]
    /\ out' = standard_to_military_time(out)
    /\ steps' = 1
    /\ UNCHANGED <<display, origin, net>>

\* add_time or subtract_time on a text of its own (first) or on what the
\* previous call of the chain returned
Shift(name, input, first, d) ==
    /\ op' = name
    /\ args' = [NoArgs EXCEPT !.time = input, !.hours = d[1],
                              !.minutes = d[2], !.seconds = d[3]]
    /\ out' = IF name = "add_time"
              THEN add_time(input, d[1], d[2], d[3])
              ELSE subtract_time(input, d[1], d[2], d[3])
    /\ origin' = IF first THEN input ELSE origin
    /\ net' = LET base == IF first THEN 0 ELSE net
              IN  IF name = "add_time"
                  THEN (base + OffsetSeconds(d)) % SECONDS_IN_DAY
                  ELSE (base - OffsetSeconds(d)) % SECONDS_IN_DAY
    /\ steps' = IF first THEN 1 ELSE steps + 1
    /\ UNCHANGED display

InChain ==
    /\ op \in {"add_time", "subtract_time"}
    /\ steps < MaxSteps
    /\ ~IsExc(out)

AddTime ==
    /\ Idle
    /\ \E t \in ArithTexts \cup MalformedTexts, d \in Offsets :
           Shift("add_time", Str(t), TRUE, d)

SubtractTime ==
    /\ Idle
    /\ \E t \in ArithTexts \cup MalformedTexts, d \in Offsets :
           Shift("subtract_time", Str(t), TRUE, d)

AddTimeAgain == InChain /\ \E d \in Offsets : Shift("add_time", out, FALSE, d)

SubtractTimeAgain ==
    InChain /\ \E d \in Offsets : Shift("subtract_time", out, FALSE, d)

TimeDifference ==
    /\ Idle
    /\ \E a \in PairTexts \cup MalformedTexts, b \in PairTexts \cup MalformedTexts :
           Fresh("time_difference",
                 [NoArgs EXCEPT !.time = Str(a), !.time2 = Str(b)],
                 time_difference(Str(a), Str(b)))

CalculateDuration ==
    /\ Idle
    /\ \E a \in PairTexts \cup MalformedTexts, b \in PairTexts \cup MalformedTexts :
           Fresh("calculate_duration",
                 [NoArgs EXCEPT !.time = Str(a), !.time2 = Str(b)],
                 calculate_duration(Str(a), Str(b)))

Next ==
    \/ ParseTime
    \/ MilitaryToStandard
    \/ StandardToMilitary
    \/ ConvertBack
    \/ AddTime
    \/ SubtractTime
    \/ AddTimeAgain
    \/ SubtractTimeAgain
    \/ TimeDifference
    \/ CalculateDuration

Spec == Init /\ [][Next]_vars

-----------------------------------------------------------------------------
(* What the properties are stated with: the reading of a text as a time of  *)
(* day, written from the formats' descriptions and not from the code        *)

TwoDigits(s, i) == s[i] \in Digits /\ s[i + 1] \in Digits

TwoDigitValue(s, i) == 10 * DigitVal(s[i]) + DigitVal(s[i + 1])

\* HH:MM or HH:MM:SS, two digits a field, every field in its range
IsMilitaryText(s) ==
    /\ Len(s) \in {5, 8}
    /\ TwoDigits(s, 1) /\ s[3] = ":" /\ TwoDigits(s, 4)
    /\ Len(s) = 8 => s[6] = ":" /\ TwoDigits(s, 7)
    /\ TwoDigitValue(s, 1) < 24
    /\ TwoDigitValue(s, 4) < 60
    /\ Len(s) = 8 => TwoDigitValue(s, 7) < 60

IsMilitary(a) == a.type = "str" /\ IsMilitaryText(a.v)

ClockHours(s) == TwoDigitValue(s, 1)
ClockMinutes(s) == TwoDigitValue(s, 4)
ClockSeconds(s) == IF Len(s) = 8 THEN TwoDigitValue(s, 7) ELSE 0

\* seconds since midnight
SecondsOfDay(s) == 3600 * ClockHours(s) + 60 * ClockMinutes(s) + ClockSeconds(s)

TwoDigitText(n) == <<DigitChars[(n \div 10) + 1], DigitChars[(n % 10) + 1]>>

\* a number of seconds below 100 hours as HH:MM:SS
ClockText(n) ==
    TwoDigitText(n \div 3600) \o <<":">> \o TwoDigitText((n % 3600) \div 60)
    \o <<":">> \o TwoDigitText(n % 60)

\* the 12-hour grammar: hour 1..12 in one or two digits, ':', two minute
\* digits 00..59, optionally ':' and two second digits 00..59, an optional
\* single space, AM or PM in either case, and nothing else
IsStandardText(s) ==
    \E hl \in {1, 2}, withSeconds \in BOOLEAN, sp \in {0, 1} :
        LET sl == IF withSeconds THEN 3 ELSE 0
            hour == DigitsValue(SubSeq(s, 1, hl))
        IN  /\ Len(s) = hl + 3 + sl + sp + 2
            /\ \A i \in 1..hl : s[i] \in Digits
            /\ 1 <= hour /\ hour <= 12
            /\ s[hl + 1] = ":"
            /\ TwoDigits(s, hl + 2) /\ TwoDigitValue(s, hl + 2) < 60
            /\ withSeconds => /\ s[hl + 4] = ":"
                              /\ TwoDigits(s, hl + 5)
                              /\ TwoDigitValue(s, hl + 5) < 60
            /\ sp = 1 => s[hl + 4 + sl] = " "
            /\ s[Len(s) - 1] \in {"A", "a", "P", "p"}
            /\ s[Len(s)] \in {"M", "m"}

IsStandard(a) == a.type = "str" /\ IsStandardText(a.v)

\* the fields of a text of the 12-hour grammar
StandardHourLen(s) == IF s[2] = ":" THEN 1 ELSE 2
StandardHour(s) == DigitsValue(SubSeq(s, 1, StandardHourLen(s)))
StandardMinute(s) == TwoDigitValue(s, StandardHourLen(s) + 2)
StandardSecond(s) ==
    IF s[StandardHourLen(s) + 4] = ":"
    THEN TwoDigitValue(s, StandardHourLen(s) + 5) ELSE 0
StandardIsPM(s) == s[Len(s) - 1] \in {"P", "p"}

-----------------------------------------------------------------------------
(* Properties *)

\* C1: for every valid 24-hour text t (HH:MM or HH:MM:SS),
\* standard_to_military_time(military_to_standard_time(t)) is t in
\* zero-padded HH:MM:SS form.
C1_RoundTrip ==
    (op = "standard_to_military_time" /\ steps = 1 /\ IsMilitary(origin))
        => out = Str(ClockText(SecondsOfDay(origin.v)))

C1_Witness ==
    /\ op = "standard_to_military_time" /\ steps = 1
    /\ origin = Str(<<"0", "0", ":", "3", "0">>)
    /\ args.time = Str(<<"1", "2", ":", "3", "0", ":", "0", "0", " ", "A", "M">>)
    /\ out = Str(<<"0", "0", ":", "3", "0", ":", "0", "0">>)

\* C2: a malformed 24-hour text makes parse_time and every operation that
\* parses its input fail with a TimeFormatError that reaches the caller; the
\* failure is not caught inside and no ordinary value is returned instead.
IsMalformed(a) == a.type = "str" /\ a.v \in MalformedTexts

C2_FormatErrorSurfaces ==
    (\/ /\ op \in {"parse_time", "military_to_standard_time", "add_time",
                   "subtract_time", "time_difference", "calculate_duration"}
        /\ IsMalformed(args.time)
     \/ /\ op \in {"time_difference", "calculate_duration"}
        /\ IsMalformed(args.time2))
        => out.type = "TimeFormatError"

\* C3: add_time returns (seconds(t) + offset) mod 86400 and subtract_time
\* (seconds(t) - offset) mod 86400 as HH:MM:SS, for every valid t and every
\* signed offset.
C3_ShiftModuloDay ==
    (op \in {"add_time", "subtract_time"} /\ IsMilitary(args.time))
        => LET d == OffsetSeconds(<<args.hours, args.minutes, args.seconds>>)
               t == SecondsOfDay(args.time.v)
           IN  out = Str(ClockText(IF op = "add_time"
                                   THEN (t + d) % 86400
                                   ELSE (t - d) % 86400))

\* Beside C3: whenever add_time or subtract_time returns a text for a valid
\* time, the text is the time shifted modulo one day; they return one for
\* every offset of at most a million hours, minutes and seconds.
ShiftWhenInRange ==
    (op \in {"add_time", "subtract_time"} /\ IsMilitary(args.time))
        => LET d == OffsetSeconds(<<args.hours, args.minutes, args.seconds>>)
               t == SecondsOfDay(args.time.v)
               small == \A x \in {args.hours, args.minutes, args.seconds} :
                            -1000000 <= x /\ x <= 1000000
           IN  /\ small => out.type = "str"
               /\ out.type = "str" =>
                      out = Str(ClockText(IF op = "add_time"
                                          THEN (t + d) % 86400
                                          ELSE (t - d) % 86400))

\* C4: without use_24h, military_to_standard_time gives "h:MM:SS AM|PM": AM
\* exactly when hours < 12; h is 12 for hours 0 and 12, hours - 12 for 13..23
\* and hours for 1..11, not zero-padded; minutes and seconds unchanged.
C4_StandardForm ==
    (op = "military_to_standard_time" /\ ~args.use_24h /\ IsMilitary(args.time))
        => LET t == args.time.v
               h == ClockHours(t)
               h12 == IF h \in {0, 12} THEN 12 ELSE IF h >= 13 THEN h - 12 ELSE h
               hourText == IF h12 >= 10 THEN TwoDigitText(h12)
                           ELSE <<DigitChars[h12 + 1]>>
           IN  /\ h12 \in 1..12
               /\ out = Str(hourText \o <<":">> \o TwoDigitText(ClockMinutes(t))
                            \o <<":">> \o TwoDigitText(ClockSeconds(t))
                            \o (IF h < 12 THEN <<" ", "A", "M">>
                                ELSE <<" ", "P", "M">>))

C4_Witness ==
    /\ op = "military_to_standard_time" /\ ~args.use_24h
    /\ args.time = Str(<<"1", "3", ":", "3", "0", ":", "0", "0">>)
    /\ out = Str(<<"1", ":", "3", "0", ":", "0", "0", " ", "P", "M">>)

\* C5: for every text of the 12-hour grammar standard_to_military_time gives
\* HH:MM:SS with the hour + 12 if PM and hour # 12, 0 if AM and hour = 12,
\* the hour otherwise; the minutes unchanged; seconds 00 if there are none.
C5_MilitaryForm ==
    (op = "standard_to_military_time" /\ steps = 0 /\ IsStandard(args.time))
        => LET t == args.time.v
               h == StandardHour(t)
               h24 == IF StandardIsPM(t) /\ h # 12 THEN h + 12
                      ELSE IF ~StandardIsPM(t) /\ h = 12 THEN 0
                      ELSE h
           IN  /\ h24 \in 0..23
               /\ out = Str(TwoDigitText(h24) \o <<":">>
                            \o TwoDigitText(StandardMinute(t)) \o <<":">>
                            \o TwoDigitText(StandardSecond(t)))

C5_Witness ==
    /\ op = "standard_to_military_time" /\ steps = 0
    /\ args.time = Str(<<"1", "2", ":", "5", "9", " ", "a", "m">>)
    /\ out = Str(<<"0", "0", ":", "5", "9", ":", "0", "0">>)

\* C6: standard_to_military_time accepts a text only if the whole of it is
\* a text of the 12-hour grammar; every other text is refused.
C6_OnlyGrammarAccepted ==
    (op = "standard_to_military_time" /\ steps = 0 /\ out.type = "str")
        => IsStandard(args.time)

\* C7: time_difference(a, b) = time_difference(b, a), and it is
\* |seconds(a) - seconds(b)| as HH:MM:SS, below 24 hours.
C7_Symmetric ==
    (op = "time_difference" /\ IsMilitary(args.time) /\ IsMilitary(args.time2))
        => LET a == SecondsOfDay(args.time.v)
               b == SecondsOfDay(args.time2.v)
           IN  /\ out = Str(ClockText(IF a >= b THEN a - b ELSE b - a))
               /\ out = time_difference(args.time2, args.time)

C7_Witness ==
    /\ op = "time_difference"
    /\ args.time = Str(<<"2", "2", ":", "0", "0", ":", "0", "0">>)
    /\ args.time2 = Str(<<"0", "2", ":", "0", "0">>)
    /\ out = Str(<<"2", "0", ":", "0", "0", ":", "0", "0">>)

\* C8: calculate_duration(start, end) is (seconds(end) - seconds(start))
\* mod 86400 as HH:MM:SS: an end earlier in the day than start is on the
\* following day; the result is below 24 hours.
C8_ForwardDuration ==
    (op = "calculate_duration" /\ IsMilitary(args.time) /\ IsMilitary(args.time2))
        => out = Str(ClockText((SecondsOfDay(args.time2.v)
                                - SecondsOfDay(args.time.v)) % 86400))

C8_Witness ==
    /\ op = "calculate_duration"
    /\ args.time = Str(<<"2", "2", ":", "0", "0", ":", "0", "0">>)
    /\ args.time2 = Str(<<"0", "2", ":", "0", "0", ":", "0", "0">>)
    /\ out = Str(<<"0", "4", ":", "0", "0", ":", "0", "0">>)

SameTimeOfDay ==
    /\ op = "calculate_duration"
    /\ IsMilitary(args.time) /\ IsMilitary(args.time2)
    /\ SecondsOfDay(args.time.v) = SecondsOfDay(args.time2.v)

\* C9 as stated: when start and end are the same time of day, end is rolled
\* over to the next day and the result is 24:00:00, not 00:00:00.
C9_SameTimeIsFullDay == SameTimeOfDay => out = Str(<<"2", "4", ":", "0", "0", ":", "0", "0">>)

\* C9 as amended: when start and end are the same time of day, end is not
\* rolled over (end < start is false) and the result is 00:00:00.
C9_SameTimeIsZero == SameTimeOfDay => out = Str(<<"0", "0", ":", "0", "0", ":", "0", "0">>)

C9_Witness ==
    /\ op = "calculate_duration"
    /\ args.time = Str(<<"2", "2", ":", "0", "0">>)
    /\ args.time2 = Str(<<"2", "2", ":", "0", "0", ":", "0", "0">>)
    /\ out = Str(<<"0", "0", ":", "0", "0", ":", "0", "0">>)

\* C10: along any chain of add_time and subtract_time calls from a valid
\* time, with any signed offsets, every result is a zero-padded HH:MM:SS text
\* with its fields in range that parse_time accepts, and it is the start
\* time shifted by the sum of the offsets modulo 24 hours.
C10_Closure ==
    (op \in {"add_time", "subtract_time"} /\ IsMilitary(origin))
        => /\ out.type = "str"
           /\ Len(out.v) = 8 /\ IsMilitaryText(out.v)
           /\ parse_time(out).type = "Time"
           /\ out = Str(ClockText((SecondsOfDay(origin.v) + net) % 86400))

\* Beside C10: every text a chain returns is a zero-padded HH:MM:SS text
\* parse_time accepts, the start time shifted by the sum of the offsets.
ClosureWhenReturned ==
    (op \in {"add_time", "subtract_time"} /\ IsMilitary(origin) /\ out.type = "str")
        => /\ Len(out.v) = 8 /\ IsMilitaryText(out.v)
           /\ parse_time(out).type = "Time"
           /\ out = Str(ClockText((SecondsOfDay(origin.v) + net) % 86400))

=============================================================================
